---- MODULE Spec2Model ----
(***************************************************************************)
(* The submit listener of static/script.js: one async handler per submit   *)
(* event of #gemini-form.  A handler invocation runs lines 2-20 in one     *)
(* synchronous step (up to the first await), is resumed when fetch()       *)
(* settles (line 20 -> 25) and again when response.json() settles (line    *)
(* 25 -> 44).  The DOM elements #submit-btn, #loading-indicator and        *)
(* #response-output are shared by all invocations.                         *)
(***************************************************************************)
EXTENDS Integers, Sequences, FiniteSets, TLC

\* Number of submit events dispatched in one run.
MaxTriggers == 2

(***************************************************************************)
(* String literals of the script.                                          *)
(***************************************************************************)
Endpoint == "/api/process_query"

InFlightMessage == "Mandefa ny fangatahana any amin'ny FastAPI..."

FallbackDetail == "Erreur inconnue du serveur."

ConnectionFailureMessage == "Erreur de connexion: Tsy tafiditra tamin'ny serveur backend FastAPI."

(***************************************************************************)
(* JavaScript values read from the parsed body.  A value is a type tag and *)
(* the string ToString() gives for it.                                     *)
(***************************************************************************)
Undefined == [t |-> "undefined", s |-> "undefined"]

Null == [t |-> "null", s |-> "null"]

Str(x) == [t |-> "string", s |-> x]

\* ToBoolean, as applied by the || of line 32.
ToBoolean(v) ==
    CASE v.t = "undefined" -> FALSE
      [] v.t = "null"      -> FALSE
      [] v.t = "string"    -> v.s # ""

\* ToString, as applied by the template literal of line 32.
JSToString(v) == v.s

\* The textContent setter takes a nullable DOMString: null and undefined
\* clear the text, anything else is converted with ToString.
TextContentOf(v) == IF v.t \in {"undefined", "null"} THEN "" ELSE JSToString(v)

(***************************************************************************)
(* What the network can deliver.                                           *)
(***************************************************************************)
Statuses == {200, 422, 500}

ResponseValues == {Undefined, Str("OK-42")}

DetailValues == {Undefined, Null, Str(""), Str("Invalid file type")}

JsonObject(r, d) == [kind |-> "object", response |-> r, detail |-> d]

\* The JSON text "null" parses to null, on which any property read throws.
JsonNull == [kind |-> "null", response |-> Undefined, detail |-> Undefined]

\* Values response.json() can resolve with.
Results == {JsonObject(r, d) : r \in ResponseValues, d \in DetailValues} \cup {JsonNull}

\* Contents the user can give the form.
FormContents == {"query-1", "query-2"}

\* response.ok
ResponseOk(status) == status \in 200..299

(***************************************************************************)
(* State.                                                                  *)
(***************************************************************************)
VARIABLES
    disabled,     \* submitBtn.disabled
    hidden,       \* loadingIndicator.classList contains 'hidden'
    text,         \* responseOutput.textContent
    color,        \* responseOutput.style.color
    form,         \* current field and file contents of #gemini-form
    tasks,        \* one record per handler invocation, in trigger order: where
                  \* it stands, its payload, and what it has written so far
    submits,      \* submit events dispatched so far
    requests,     \* fetch() calls issued so far
    lastSettled   \* what the most recently settled invocation received

vars == <<disabled, hidden, text, color, form, tasks, submits, requests, lastSettled>>

NoSettlement == [via |-> "none", status |-> 0, result |-> JsonNull]

\* The elements as the page's markup gives them: the button enabled, the
\* indicator hidden, no output yet and no inline colour.
InitialUI ==
    /\ disabled = FALSE
    /\ hidden = TRUE
    /\ text = ""
    /\ color = ""

\* The page once the script has registered its listener (line 1).
Init ==
    /\ InitialUI
    /\ form \in FormContents
    /\ tasks = <<>>
    /\ submits = 0
    /\ requests = <<>>
    /\ lastSettled = NoSettlement

InFlight == {t \in DOMAIN tasks : tasks[t].pc # "done"}

(***************************************************************************)
(* Lines 2-20: the synchronous prefix of the handler, up to await fetch(). *)
(***************************************************************************)
\* FormData built without the form (new FormData()): an empty payload.
FormDataWithoutForm(f) == ""

\* Line 6: new FormData(form) copies the entries of the form.
FormData(f) == f

\* The payload of a handler that has returned: nothing refers to it any more.
Released == "released"

\* HandlerEntry with line 13 missing: the button stays enabled.
HandlerEntryLeavesEnabled ==
    /\ submits < MaxTriggers
    /\ submits' = submits + 1
    /\ disabled' = disabled
    /\ hidden' = FALSE
    /\ text' = InFlightMessage
    /\ color' = "black"
    /\ requests' = Append(requests, [method |-> "POST", url |-> Endpoint, task |-> Len(tasks) + 1])
    /\ tasks' = Append(tasks, [pc |-> "fetch", formData |-> FormData(form), status |-> 0,
                                writes |-> <<>>, restores |-> 0])
    /\ UNCHANGED <<form, lastSettled>>

\* HandlerEntry with line 14 missing: the indicator is not revealed.
HandlerEntryKeepsIndicator ==
    /\ submits < MaxTriggers
    /\ submits' = submits + 1
    /\ disabled' = TRUE
    /\ hidden' = hidden
    /\ text' = InFlightMessage
    /\ color' = "black"
    /\ requests' = Append(requests, [method |-> "POST", url |-> Endpoint, task |-> Len(tasks) + 1])
    /\ tasks' = Append(tasks, [pc |-> "fetch", formData |-> FormData(form), status |-> 0,
                                writes |-> <<>>, restores |-> 0])
    /\ UNCHANGED <<form, lastSettled>>

\* HandlerEntry with line 16 missing: the colour is left as it was.
HandlerEntryKeepsColor ==
    /\ submits < MaxTriggers
    /\ submits' = submits + 1
    /\ disabled' = TRUE
    /\ hidden' = FALSE
    /\ text' = InFlightMessage
    /\ color' = color
    /\ requests' = Append(requests, [method |-> "POST", url |-> Endpoint, task |-> Len(tasks) + 1])
    /\ tasks' = Append(tasks, [pc |-> "fetch", formData |-> FormData(form), status |-> 0,
                                writes |-> <<>>, restores |-> 0])
    /\ UNCHANGED <<form, lastSettled>>

HandlerEntry ==
    /\ submits < MaxTriggers
    /\ submits' = submits + 1
    /\ disabled' = TRUE
    /\ hidden' = FALSE
    /\ text' = InFlightMessage
    /\ color' = "black"
    /\ requests' = Append(requests, [method |-> "POST", url |-> Endpoint, task |-> Len(tasks) + 1])
    /\ tasks' = Append(tasks, [pc |-> "fetch", formData |-> FormData(form), status |-> 0,
                                writes |-> <<>>, restores |-> 0])
    /\ UNCHANGED <<form, lastSettled>>

\* A submit event while the submit button is enabled: a click on it, or
\* implicit submission, which the browser allows only then.
Trigger == ~disabled /\ HandlerEntry

\* A submit event while the button is disabled: form.requestSubmit() or
\* any other path that does not go through the button.
BypassTrigger == disabled /\ HandlerEntry

(***************************************************************************)
(* The blocks of the try statement.                                        *)
(***************************************************************************)
\* ErrorText without the status code.
ErrorTextWithoutStatus(status, result) ==
    "ERREUR: " \o
        (IF ToBoolean(result.detail) THEN JSToString(result.detail) ELSE FallbackDetail)

\* ErrorText with ?? in place of ||: the fallback only for a missing or null detail.
ErrorTextNullish(status, result) ==
    "ERREUR (" \o ToString(status) \o "): " \o
        (IF result.detail.t \in {"undefined", "null"}
         THEN FallbackDetail ELSE JSToString(result.detail))

\* Line 32.
ErrorText(status, result) ==
    "ERREUR (" \o ToString(status) \o "): " \o
        (IF ToBoolean(result.detail) THEN JSToString(result.detail) ELSE FallbackDetail)

\* Lines 28-34, given the parsed body: what is written, or that the block
\* threw before writing (a property read on null).
TryBranch(status, result, col) ==
    IF result.kind = "null"
    THEN [threw |-> TRUE, kind |-> "none", text |-> "", color |-> col]
    ELSE IF ResponseOk(status)
         THEN [threw |-> FALSE, kind |-> "success",
               text |-> TextContentOf(result.response), color |-> col]
         ELSE [threw |-> FALSE, kind |-> "error",
               text |-> ErrorText(status, result), color |-> "red"]

\* CatchBlock with line 39 missing: the colour is left as it was.
CatchBlockKeepsColor == [threw |-> FALSE, kind |-> "failure", text |-> ConnectionFailureMessage, color |-> color]

\* Lines 36-39.
CatchBlock == [threw |-> FALSE, kind |-> "failure", text |-> ConnectionFailureMessage, color |-> "red"]

\* FinallyBlock with line 42 missing: the button stays as it was.
FinallyBlockKeepsButton ==
    /\ disabled' = disabled
    /\ hidden' = TRUE

\* FinallyBlock with line 43 missing: the indicator stays visible.
FinallyBlockKeepsIndicator ==
    /\ disabled' = FALSE
    /\ hidden' = hidden

\* FinallyBlock behind an in-flight count: the busy state is cleared only by
\* the last handler still in flight.
FinallyBlockCountsInFlight ==
    /\ disabled' = (Cardinality(InFlight) > 1)
    /\ hidden' = (Cardinality(InFlight) <= 1)

\* Lines 40-44.
FinallyBlock ==
    /\ disabled' = FALSE
    /\ hidden' = TRUE

\* Settle leaving the try statement before any outcome write.
SettleWithoutWrite(t, out, via, status, result) ==
    /\ UNCHANGED <<text, color>>
    /\ FinallyBlock
    /\ tasks' = [tasks EXCEPT ![t] = [pc |-> "done", formData |-> Released, status |-> 0,
                                       writes |-> @.writes, restores |-> @.restores + 1]]
    /\ lastSettled' = [via |-> via, status |-> status, result |-> result]
    /\ UNCHANGED <<form, submits, requests>>

\* The handler's last synchronous step: one outcome write, then finally.
Settle(t, out, via, status, result) ==
    /\ text' = out.text
    /\ color' = out.color
    /\ FinallyBlock
    /\ tasks' = [tasks EXCEPT ![t] = [pc |-> "done", formData |-> Released, status |-> 0,
                                       writes |-> Append(@.writes, out.kind),
                                       restores |-> @.restores + 1]]
    /\ lastSettled' = [via |-> via, status |-> status, result |-> result]
    /\ UNCHANGED <<form, submits, requests>>

(***************************************************************************)
(* Network completions.                                                    *)
(***************************************************************************)
\* FetchResolves with the restore step placed after the first await instead
\* of in finally: the button and indicator are restored before the outcome
\* write, and again at the end.
FetchResolvesRestoresEarly(t) ==
    /\ t \in DOMAIN tasks /\ tasks[t].pc = "fetch"
    /\ \E s \in Statuses :
          tasks' = [tasks EXCEPT ![t].pc = "json", ![t].status = s,
                                 ![t].restores = @ + 1]
    /\ FinallyBlock
    /\ UNCHANGED <<text, color, form, submits, requests, lastSettled>>

\* fetch() resolves with a response: line 25 calls response.json() and the
\* handler suspends again.
FetchResolves(t) ==
    /\ t \in DOMAIN tasks /\ tasks[t].pc = "fetch"
    /\ \E s \in Statuses : tasks' = [tasks EXCEPT ![t].pc = "json", ![t].status = s]
    /\ UNCHANGED <<disabled, hidden, text, color, form, submits, requests, lastSettled>>

\* FetchRejects re-sending the request instead of giving up.
FetchRejectsThenRetries(t) ==
    /\ t \in DOMAIN tasks /\ tasks[t].pc = "fetch"
    /\ Len(requests) < 2 * MaxTriggers
    /\ requests' = Append(requests, [method |-> "POST", url |-> Endpoint, task |-> t])
    /\ UNCHANGED <<disabled, hidden, text, color, form, tasks, submits, lastSettled>>

\* fetch() rejects: catch, finally.
FetchRejects(t) ==
    /\ t \in DOMAIN tasks /\ tasks[t].pc = "fetch"
    /\ Settle(t, CatchBlock, "fetch-rejected", 0, JsonNull)

\* response.json() resolves: lines 28-34, catch if they throw, finally.
JsonResolves(t) ==
    /\ t \in DOMAIN tasks /\ tasks[t].pc = "json"
    /\ \E result \in Results :
          LET out == TryBranch(tasks[t].status, result, color)
          IN  Settle(t, IF out.threw THEN CatchBlock ELSE out,
                     "json-resolved", tasks[t].status, result)

\* response.json() rejects (the body is not JSON, or its stream failed).
JsonRejects(t) ==
    /\ t \in DOMAIN tasks /\ tasks[t].pc = "json"
    /\ Settle(t, CatchBlock, "json-rejected", tasks[t].status, JsonNull)

\* The network call that invocation t awaits resolves or rejects.
Completion(t) == FetchResolves(t) \/ FetchRejects(t) \/ JsonResolves(t) \/ JsonRejects(t)

\* The user edits the form; the script has no listener for it.
EditForm ==
    /\ \E f \in FormContents \ {form} : form' = f
    /\ UNCHANGED <<disabled, hidden, text, color, tasks, submits, requests, lastSettled>>

NextNormal ==
    \/ Trigger
    \/ EditForm
    \/ \E t \in 1..MaxTriggers : FetchResolves(t)
    \/ \E t \in 1..MaxTriggers : FetchRejects(t)
    \/ \E t \in 1..MaxTriggers : JsonResolves(t)
    \/ \E t \in 1..MaxTriggers : JsonRejects(t)

\* Submit events arrive only through the enabled button.
SpecNormal == Init /\ [][NextNormal]_vars

Next ==
    \/ Trigger
    \/ BypassTrigger
    \/ EditForm
    \/ \E t \in 1..MaxTriggers : FetchResolves(t)
    \/ \E t \in 1..MaxTriggers : FetchRejects(t)
    \/ \E t \in 1..MaxTriggers : JsonResolves(t)
    \/ \E t \in 1..MaxTriggers : JsonRejects(t)

\* Submit events arrive at any time.
Spec == Init /\ [][Next]_vars

\* Every fetch() and every response.json() eventually resolves or rejects,
\* and the continuation of the handler that awaits it then runs.
FairSpec ==
    /\ Spec
    /\ \A t \in 1..MaxTriggers : WF_vars(Completion(t))

(***************************************************************************)
(* Properties.                                                             *)
(***************************************************************************)
\* The step in which invocation t runs its last synchronous part.
Settles(t) == t \in DOMAIN tasks /\ tasks[t].pc # "done" /\ tasks'[t].pc = "done"

Idle == ~disabled /\ hidden

Busy == disabled /\ ~hidden

\* C1: whatever the outcome, the state right after a handler settles has the
\* submit button enabled and the loading indicator hidden.
C1_RestoredAfterSettle ==
    [][\A t \in 1..MaxTriggers : Settles(t) => (~disabled' /\ hidden')]_vars

C1_Witness ==
    /\ lastSettled.via = "fetch-rejected"
    /\ InFlight = {}
    /\ Idle

\* C2: with submit events only through the enabled button, the button is
\* disabled and the indicator visible exactly while a submission is in
\* flight, and both are in their default state otherwise.
C2_BusyIffInFlight ==
    /\ disabled = (InFlight # {})
    /\ hidden = (InFlight = {})

C2_Witness ==
    /\ submits = 2
    /\ \E t \in DOMAIN tasks : tasks[t].pc = "json"
    /\ Busy

\* C3: with submit events only through the enabled button, at most one
\* submission is in flight at any time, so the button, the indicator and
\* the output have a single writer.
C3_SingleInFlight ==
    Cardinality(InFlight) <= 1

C3_Witness ==
    /\ InFlight = {2}
    /\ tasks[1].pc = "done"

SettlesWithObject(ok) ==
    /\ \E t \in 1..MaxTriggers : Settles(t)
    /\ lastSettled'.via = "json-resolved"
    /\ lastSettled'.result.kind = "object"
    /\ ResponseOk(lastSettled'.status) = ok

\* C5: a handler that receives a 2xx status and a JSON body leaves the
\* body's response field as the output text and the colour black, whatever
\* earlier submissions did to the colour.  The success branch (line 29)
\* sets no colour: the black is the one line 16 set at the trigger, so the
\* formula holds under SpecNormal and fails under Spec, where a handler
\* triggered earlier can turn the colour red in between.
C5_SuccessTextAndNeutralColour ==
    [][(SettlesWithObject(TRUE) /\ lastSettled'.result.response.t = "string") =>
          /\ text' = lastSettled'.result.response.s
          /\ color' = "black"]_vars

\* C6: a handler that receives a non-2xx status and a JSON body with a
\* detail field leaves "ERREUR (<status>): <detail>" in red.
C6_ErrorTextCarriesDetail ==
    [][(SettlesWithObject(FALSE) /\ lastSettled'.result.detail.t # "undefined") =>
          /\ text' = "ERREUR (" \o ToString(lastSettled'.status) \o "): "
                        \o lastSettled'.result.detail.s
          /\ color' = "red"]_vars

\* C6 as amended: the same for a detail that is a non-empty string.
C6_ErrorTextCarriesNonEmptyDetail ==
    [][(/\ SettlesWithObject(FALSE)
        /\ lastSettled'.result.detail.t = "string"
        /\ lastSettled'.result.detail.s # "") =>
          /\ text' = "ERREUR (" \o ToString(lastSettled'.status) \o "): "
                        \o lastSettled'.result.detail.s
          /\ color' = "red"]_vars

C6_Witness ==
    /\ lastSettled.via = "json-resolved"
    /\ lastSettled.status = 422
    /\ lastSettled.result.detail = Str("Invalid file type")
    /\ text = "ERREUR (422): Invalid file type"
    /\ color = "red"
    /\ Idle

\* The structured error text with the fallback phrase in place of a detail.
FallbackErrorText(status) == "ERREUR (" \o ToString(status) \o "): " \o FallbackDetail

\* C7: for a non-2xx status and a JSON body, the fallback phrase stands in
\* for the detail exactly when the body has no detail field; the text then
\* holds the status code and the phrase, in red.  Stated for the bodies that
\* are objects, where it already fails.
C7_FallbackIffNoDetail ==
    [][SettlesWithObject(FALSE) =>
          /\ (text' = FallbackErrorText(lastSettled'.status))
                <=> (lastSettled'.result.detail.t = "undefined")
          /\ color' = "red"]_vars

\* C7 as amended: for a non-2xx status and a JSON object body, the fallback
\* phrase stands in for the detail exactly when the detail is missing, null
\* or the empty string.
C7_FallbackIffNoTruthyDetail ==
    [][SettlesWithObject(FALSE) =>
          /\ (text' = FallbackErrorText(lastSettled'.status))
                <=> \/ lastSettled'.result.detail.t \in {"undefined", "null"}
                    \/ lastSettled'.result.detail = Str("")
          /\ color' = "red"]_vars

C7_Witness ==
    /\ lastSettled.via = "json-resolved"
    /\ lastSettled.status = 500
    /\ lastSettled.result = JsonObject(Undefined, Undefined)
    /\ text = "ERREUR (500): Erreur inconnue du serveur."
    /\ color = "red"
    /\ Idle

\* C8: when fetch() rejects or the body does not parse, whatever the status,
\* the handler leaves the connection-failure message in red, has written no
\* success or structured-error text, and the busy state is cleared.
C8_TransportFailure ==
    [][\A t \in 1..MaxTriggers :
          (Settles(t) /\ lastSettled'.via \in {"fetch-rejected", "json-rejected"}) =>
              /\ text' = ConnectionFailureMessage
              /\ color' = "red"
              /\ tasks'[t].writes = <<"failure">>
              /\ ~disabled' /\ hidden']_vars

C8_Witness ==
    /\ lastSettled.via = "json-rejected"
    /\ lastSettled.status = 200
    /\ text = ConnectionFailureMessage
    /\ color = "red"
    /\ Idle

\* C9: the POST requests issued to /api/process_query are as many as the
\* submit events, one per handler invocation; a failed one is not re-sent.
C9_OneRequestPerTrigger ==
    /\ Len(requests) = submits
    /\ Len(tasks) = submits
    /\ \A i \in DOMAIN requests :
          requests[i] = [method |-> "POST", url |-> "/api/process_query", task |-> i]

C9_Witness ==
    /\ submits = 2
    /\ Len(requests) = 2
    /\ tasks[1].writes = <<"failure">>
    /\ tasks[2].writes = <<"error">>

\* C10: if every network call eventually resolves or rejects, every
\* triggered submission eventually settles and a busy UI eventually returns
\* to idle (button enabled, indicator hidden).  A settled invocation stays
\* settled, so "eventually settles" is "from some point on, settled if triggered".
C10_EventuallyIdle ==
    /\ \A t \in 1..MaxTriggers : <>[](t \in DOMAIN tasks => tasks[t].pc = "done")
    /\ (disabled \/ ~hidden) ~> Idle

C10_Witness ==
    /\ submits = 2
    /\ lastSettled.via = "json-resolved"
    /\ lastSettled.result = JsonNull
    /\ InFlight = {}
    /\ Idle

\* C11: the restore step runs exactly once per handler, on every path, in
\* the same synchronous step as the handler's outcome write and after it;
\* so the UI is never non-busy while the output still shows the in-flight
\* message.
C11_RestoreOnceWithOutcome ==
    /\ [](~disabled \/ hidden => text # InFlightMessage)
    /\ [](\A t \in DOMAIN tasks :
             tasks[t].restores = (IF tasks[t].pc = "done" THEN 1 ELSE 0))
    /\ [][\A t \in DOMAIN tasks :
             tasks'[t].restores # tasks[t].restores =>
                 /\ Settles(t)
                 /\ Len(tasks'[t].writes) = Len(tasks[t].writes) + 1
                 /\ Idle']_vars

C11_Witness ==
    /\ submits = 2
    /\ InFlight = {}
    /\ tasks[1].restores = 1 /\ tasks[2].restores = 1
    /\ tasks[1].writes = <<"failure">> /\ tasks[2].writes = <<"success">>
    /\ Idle
    /\ text = "OK-42"

\* The step in which invocation t is triggered.
Triggers(t) == t \notin DOMAIN tasks /\ t \in DOMAIN tasks'

\* C12: the payload of a handler's request is the form's contents at the
\* trigger; later steps (edits of the form, other triggers, completions)
\* leave the payload of an in-flight request as it is, and an edit changes
\* nothing of any handler or of the output.
C12_PayloadCapturedAtTrigger ==
    [][/\ \A t \in 1..MaxTriggers :
             /\ Triggers(t) =>
                   /\ tasks'[t].formData = form
                   /\ requests' = Append(requests, [method |-> "POST", url |-> Endpoint, task |-> t])
             /\ (t \in DOMAIN tasks /\ tasks'[t].pc # "done") =>
                   tasks'[t].formData = tasks[t].formData
       /\ form' # form => UNCHANGED <<tasks, requests, disabled, hidden, text, color>>]_vars

\* Two requests in flight with different payloads, the form edited since.
C12_Witness ==
    /\ InFlight = {1, 2}
    /\ tasks[1].formData = "query-1"
    /\ tasks[2].formData = "query-2"
    /\ form = "query-1"

\* C13: with submit events only through the enabled button, from a trigger
\* until the handler's outcome write the output text is the in-flight
\* message and the colour black, whatever the previous submission left; the
\* output changes only in a trigger or a settling step.
C13_InFlightMessageWhileBusy ==
    /\ [](InFlight # {} => (text = InFlightMessage /\ color = "black"))
    /\ [][(text' # text \/ color' # color) =>
             \/ \E t \in 1..MaxTriggers : Triggers(t)
             \/ \E t \in 1..MaxTriggers : Settles(t)]_vars

\* The second submission in flight, after the first one left an error in red.
C13_Witness ==
    /\ InFlight = {2}
    /\ tasks[2].pc = "json"
    /\ tasks[1].writes = <<"error">>
    /\ lastSettled.status = 500
    /\ text = InFlightMessage
    /\ color = "black"

\* C14: a submit event while a submission is in flight starts a second,
\* concurrent request, and the first handler to settle clears the busy state
\* for both: its settling step leaves the button enabled and the indicator
\* hidden although a request is still in flight.  A non-busy UI with a
\* request in flight arises in no other way.
C14_FirstSettlementClearsBusy ==
    /\ [][\A t \in 1..MaxTriggers :
             /\ (Triggers(t) /\ disabled) => (InFlight' = InFlight \cup {t} /\ InFlight # {})
             /\ (Settles(t) /\ InFlight' # {}) => Idle']_vars
    /\ []((Idle /\ InFlight # {}) =>
             (lastSettled.via # "none" /\ \E t \in DOMAIN tasks : tasks[t].pc = "done"))

\* Two requests sent, the first settled, the second still in flight, and
\* the UI non-busy.
C14_Witness ==
    /\ Len(requests) = 2
    /\ tasks[1].pc = "done"
    /\ tasks[2].pc \in {"fetch", "json"}
    /\ ~disabled
    /\ hidden

\* The texts an application error can leave.
StructuredErrorTexts ==
    {"ERREUR (" \o ToString(st) \o "): " \o d :
        st \in Statuses, d \in {FallbackDetail, "Invalid file type"}}

\* C15: in every reachable state, overlapping submissions included, the
\* output text and colour come from the same outcome: a success text is not
\* shown in red, and an error or connection-failure text is shown in red.
\* The formula holds under SpecNormal and fails under Spec: the success
\* branch (line 29) sets no colour, so it keeps the red of a handler that
\* settled with an error since the trigger.
C15_TextAndColourAgree ==
    /\ text = "OK-42" => color # "red"
    /\ text \in StructuredErrorTexts \cup {ConnectionFailureMessage} => color = "red"

====
